---- MODULE Spec2Model ----
(***************************************************************************)
(* Model of src/core/modules/Translator.ts: the Translator class (the      *)
(* localization engine built around Polyglot) and the top-level bootstrap  *)
(* that resolves txEnv, txDevEnv and convars or exits the process.         *)
(*                                                                         *)
(* Strings the code inspects character by character (paths, the profile    *)
(* name) are sequences of UTF-16 code units; JSON values are tagged        *)
(* records.                                                                *)
(***************************************************************************)
EXTENDS Integers, Sequences, FiniteSets, TLC

(***************************************************************************)
(* Bounds of the model.                                                    *)
(***************************************************************************)
\* raw serverProfile values are all strings over ProfileAlphabet up to this length
MaxProfileLen == 2
\* host builds are drawn within this distance of minFXServerVersion
VersionSpread == 1
\* number of refreshConfig() / t() calls made on one Translator
MaxCalls == 3

(***************************************************************************)
(* Characters.                                                             *)
(***************************************************************************)
\* the printable ASCII characters: code units 32..95 and 97..126, in order
PrintableLow == " !\"#$%&'()*+,-./0123456789:;<=>?@ABCDEFGHIJKLMNOPQRSTUVWXYZ[\\]^_"
PrintableHigh == "abcdefghijklmnopqrstuvwxyz{|}~"

IndexIn(table, c) == CHOOSE i \in 1..Len(table) : SubSeq(table, i, i) = c

CharCode(c) ==
    IF \E i \in 1..Len(PrintableLow) : SubSeq(PrintableLow, i, i) = c
    THEN 31 + IndexIn(PrintableLow, c)
    ELSE 96 + IndexIn(PrintableHigh, c)

\* a string literal as its sequence of code units
Ascii(s) == [i \in 1..Len(s) |-> CharCode(SubSeq(s, i, i))]

\* literal strings of the source, as code units
StrFalse == Ascii("false")
StrNull == Ascii("null")
StrTemp == Ascii("temp")
StrRar == Ascii("rar$")
StrDotDot == Ascii("..")
StrUp3 == Ascii("../../../")
StrTxData == Ascii("txData")
StrBcrypt == Ascii("$2y$")
StrDotBase == Ascii(".base")
StrZero == Ascii("0")
StrEnGB == Ascii("en-GB")
StrCustom == Ascii("custom")

IsLower(c) == c >= 97 /\ c <= 122
IsUpper(c) == c >= 65 /\ c <= 90
IsDigit(c) == c >= 48 /\ c <= 57
ToLower(c) == IF IsUpper(c) THEN c + 32 ELSE c

StartsWith(s, p) == Len(s) >= Len(p) /\ SubSeq(s, 1, Len(p)) = p
EndsWith(s, p) == Len(s) >= Len(p) /\ SubSeq(s, Len(s) - Len(p) + 1, Len(s)) = p

(***************************************************************************)
(* node:path normalize and join, and slash(): cleanPath.                   *)
(***************************************************************************)
Seps(isWindows) == IF isWindows THEN {47, 92} ELSE {47}

RECURSIVE SplitAt(_, _, _, _, _)
SplitAt(p, seps, i, cur, acc) ==
    IF i > Len(p) THEN Append(acc, cur)
    ELSE IF p[i] \in seps THEN SplitAt(p, seps, i + 1, <<>>, Append(acc, cur))
    ELSE SplitAt(p, seps, i + 1, Append(cur, p[i]), acc)

\* the components of p between separators (empty ones included)
Split(p, seps) == SplitAt(p, seps, 1, <<>>, <<>>)

\* normalizeString of node:path: drops empty and dot components, resolves
\* dot-dot components against the stack
RECURSIVE ResolveDots(_, _, _)
ResolveDots(comps, stack, allowAboveRoot) ==
    IF comps = <<>> THEN stack
    ELSE LET c == Head(comps)
             rest == Tail(comps)
         IN IF c = <<>> \/ c = <<46>> THEN ResolveDots(rest, stack, allowAboveRoot)
            ELSE IF c = <<46, 46>> THEN
                IF stack # <<>> /\ stack[Len(stack)] # <<46, 46>>
                THEN ResolveDots(rest, SubSeq(stack, 1, Len(stack) - 1), allowAboveRoot)
                ELSE IF allowAboveRoot
                THEN ResolveDots(rest, Append(stack, c), allowAboveRoot)
                ELSE ResolveDots(rest, stack, allowAboveRoot)
            ELSE ResolveDots(rest, Append(stack, c), allowAboveRoot)

RECURSIVE JoinComps(_, _)
JoinComps(comps, sep) ==
    IF comps = <<>> THEN <<>>
    ELSE IF Len(comps) = 1 THEN comps[1]
    ELSE comps[1] \o <<sep>> \o JoinComps(Tail(comps), sep)

\* length of the drive prefix (letter, colon) of a Windows path, else 0
DeviceLen(p, isWindows) ==
    IF isWindows /\ Len(p) >= 2 /\ (IsLower(p[1]) \/ IsUpper(p[1])) /\ p[2] = 58
    THEN 2 ELSE 0

\* path.normalize: separators collapsed, dots resolved, the platform's
\* separator written between components
normalize(x, isWindows) ==
    LET seps == Seps(isWindows)
        sep == IF isWindows THEN 92 ELSE 47
        dl == DeviceLen(x, isWindows)
        device == SubSeq(x, 1, dl)
        body == SubSeq(x, dl + 1, Len(x))
        isAbs == body # <<>> /\ body[1] \in seps
        trailing == body # <<>> /\ body[Len(body)] \in seps
        tail == JoinComps(ResolveDots(Split(body, seps), <<>>, ~isAbs), sep)
    IN IF tail = <<>>
       THEN IF isAbs THEN device \o <<sep>>
            ELSE IF dl > 0 THEN device
            ELSE IF trailing THEN <<46, sep>> ELSE <<46>>
       ELSE device \o (IF isAbs THEN <<sep>> ELSE <<>>) \o tail
                   \o (IF trailing THEN <<sep>> ELSE <<>>)

\* slash(): every backslash becomes a forward slash, except in an
\* extended-length path
slash(p) ==
    IF StartsWith(p, <<92, 92, 63, 92>>) THEN p
    ELSE [i \in 1..Len(p) |-> IF p[i] = 92 THEN 47 ELSE p[i]]

cleanPath(x, isWindows) == slash(normalize(x, isWindows))

\* the non-empty segments joined by the platform separator
RECURSIVE JoinSegments(_, _)
JoinSegments(segs, sep) ==
    IF segs = <<>> THEN <<>>
    ELSE LET rest == JoinSegments(Tail(segs), sep)
         IN IF Head(segs) = <<>> THEN rest
            ELSE IF rest = <<>> THEN Head(segs)
            ELSE Head(segs) \o <<sep>> \o rest

\* path.join(...segs)
pathJoin(segs, isWindows) ==
    LET joined == JoinSegments(segs, IF isWindows THEN 92 ELSE 47)
    IN IF joined = <<>> THEN <<46>> ELSE normalize(joined, isWindows)

\* String.prototype.trim on code units (space, tab, line feed, carriage return)
IsSpace(c) == c \in {32, 9, 10, 13}

RECURSIVE TrimLeft(_)
TrimLeft(s) == IF s # <<>> /\ IsSpace(Head(s)) THEN TrimLeft(Tail(s)) ELSE s

RECURSIVE TrimRight(_)
TrimRight(s) ==
    IF s # <<>> /\ IsSpace(s[Len(s)]) THEN TrimRight(SubSeq(s, 1, Len(s) - 1)) ELSE s

Trim(s) == TrimRight(TrimLeft(s))

AllDigits(s) == \A i \in 1..Len(s) : IsDigit(s[i])

\* the result of getConvarString: false when the convar reads 'false', else
\* the trimmed string
getConvarString(cvar) ==
    LET t == Trim(cvar)
    IN IF t = StrFalse THEN [isFalse |-> TRUE, str |-> <<>>]
       ELSE [isFalse |-> FALSE, str |-> t]

\* JavaScript falsiness of a getConvarString result: false or the empty string
Falsy(cv) == cv.isFalse \/ cv.str = <<>>

(***************************************************************************)
(* JSON / JavaScript values: a type tag and, for strings and numbers, the  *)
(* text of the value as code units; objects carry their own properties.    *)
(***************************************************************************)
JUndef == [t |-> "undefined", v |-> <<>>]
JNull == [t |-> "null", v |-> <<>>]
JFalse == [t |-> "boolean", v |-> StrFalse]
JNum(text) == [t |-> "number", v |-> Ascii(text)]
JStr(text) == [t |-> "string", v |-> Ascii(text)]
JObj(props) == [t |-> "object", v |-> <<>>, f |-> props]

\* property read x.k: undefined when x is a primitive or lacks k
Get(x, k) == IF x.t = "object" /\ k \in DOMAIN x.f THEN x.f[k] ELSE JUndef

\* reading a property of null or undefined throws a TypeError
ReadThrows(x) == x.t \in {"undefined", "null"}

Truthy(x) ==
    CASE x.t \in {"undefined", "null"} -> FALSE
      [] x.t = "boolean" -> x.v # StrFalse
      [] x.t = "number" -> x.v # StrZero
      [] x.t = "string" -> x.v # <<>>
      [] OTHER -> TRUE

\* /^\d{1,3}\.\d{1,3}\.\d{1,3}\.\d{1,3}$/
IsDottedQuad(s) ==
    LET parts == Split(s, {46})
    IN /\ Len(parts) = 4
       /\ \A i \in 1..4 : Len(parts[i]) \in 1..3 /\ AllDigits(parts[i])

RECURSIVE StripLeadingZeros(_)
StripLeadingZeros(s) ==
    IF Len(s) > 1 /\ Head(s) = 48 THEN StripLeadingZeros(Tail(s)) ELSE s

\* parseInt of an all-digit string, as a number value
parseInt(s) == [t |-> "number", v |-> StripLeadingZeros(s)]

(***************************************************************************)
(* The bootstrap's decisions, as functions of what it has read.            *)
(***************************************************************************)
minFXServerVersion == 5894

\* @lib/fxserver/fxsVersionParser: a host version string gives a branch and
\* a build number, anything else (the unset convar included) is not valid
parseFxserverVersion(ver) ==
    IF ver.kind = "fxserver"
    THEN [valid |-> TRUE, branch |-> ver.branch, build |-> ver.build]
    ELSE [valid |-> FALSE, branch |-> "", build |-> 0]

fxServerVersionOf(parsed) == IF parsed.valid THEN parsed.build ELSE 99999

\* a gate that also turns away the minimum build
versionTooOldInclusive(parsed) == parsed.valid /\ parsed.build <= minFXServerVersion

\* the branch of the version gate that exits with 102
versionTooOld(parsed) == parsed.valid /\ parsed.build < minFXServerVersion

\* typeof x !== 'string' || x == 'null', for GetResourceMetadata / GetResourcePath
notAStringOrNull(x) == x.t # "string" \/ x.v = StrNull

LowerSeq(s) == [i \in 1..Len(s) |-> ToLower(s[i])]

\* /Temp[\\/]+Rar\$/i.test(s)
matchesWinRarTemp(s) ==
    LET l == LowerSeq(s)
    IN \E i \in 1..Len(l), n \in 1..Len(l) :
          /\ i + n + 7 <= Len(l)
          /\ SubSeq(l, i, i + 3) = StrTemp
          /\ \A j \in (i + 4)..(i + 3 + n) : l[j] \in {47, 92}
          /\ SubSeq(l, i + 4 + n, i + 7 + n) = StrRar

insideWinRarTemp(isWindows, fxServerPath) ==
    isWindows /\ matchesWinRarTemp(fxServerPath)

dataPathOf(txDataPathConvar, fxServerPath, isWindows) ==
    IF Falsy(txDataPathConvar)
    THEN LET dataPathSuffix == IF isWindows THEN StrDotDot ELSE StrUp3
         IN cleanPath(pathJoin(<<fxServerPath, dataPathSuffix, StrTxData>>,
                               isWindows), isWindows)
    ELSE cleanPath(txDataPathConvar.str, isWindows)

\* nonASCIIRegex = /[^\x00-\x80]+/ : some code unit lies outside 0x00..0x80
nonASCIIRegex(s) == \E i \in 1..Len(s) : ~(s[i] >= 0 /\ s[i] <= 128)

\* a character the profile sanitizer keeps: [a-z0-9._-], case-insensitive
profileCharAllowed(c) ==
    IsLower(c) \/ IsUpper(c) \/ IsDigit(c) \/ c \in {46, 95, 45}

\* GetConvar('serverProfile', 'default').replace(/[^a-z0-9._-]/gi, '').trim()
profileOf(serverProfile) == Trim(SelectSeq(serverProfile, profileCharAllowed))

profilePathOf(dataPath, profile, isWindows) ==
    cleanPath(pathJoin(<<dataPath, profile>>, isWindows), isWindows)

\* the developer override is enabled without both of its paths
devEnvIncomplete(src) == src.ENABLED /\ (src.SRC_PATH = <<>> \/ src.VITE_URL = <<>>)

txDevEnvOf(src) ==
    IF src.ENABLED THEN src
    ELSE [src EXCEPT !.SRC_PATH = <<>>, !.VITE_URL = <<>>]

isPterodactylOf(isWindows, txadminEnable) == ~isWindows /\ txadminEnable = "1"

\* a descriptor that always wins
isZapHostingAlways(isPterodactyl) == TRUE

\* isZapHosting once the descriptor file is found to exist
isZapHostingOf(isPterodactyl) == ~isPterodactyl

\* the customer checks of the descriptor: one of the four throws
customerThrows(customer) ==
    LET name == Get(customer, "name")
        hash == Get(customer, "password_hash")
    IN \/ name.t # "string"
       \/ Len(name.v) < 3
       \/ hash.t # "string"
       \/ ~StartsWith(hash.v, StrBcrypt)

\* a gate that forgets the developer override
unlinkAlways(devEnabled) == TRUE

\* if (!_txDevEnv.ENABLED) fs.unlinkSync(zapCfgFile)
unlinkGate(devEnabled) == ~devEnabled

\* the try block that loads the descriptor: JSON.parse or a property read or
\* a customer check throws, or the bindings are set (and the file is unlinked
\* unless the developer override is enabled)
loadZapCfg(file, devEnabled) ==
    LET zapCfgData == file.data
        defaults == Get(zapCfgData, "defaults")
        customer == Get(zapCfgData, "customer")
        threw == \/ ~file.validJson
                 \/ ReadThrows(zapCfgData)
                 \/ ReadThrows(defaults)
                 \/ (Truthy(customer) /\ customerThrows(customer))
    IN IF threw
       THEN [threw |-> TRUE, unlink |-> FALSE,
             forceInterface |-> JUndef, forceFXServerPort |-> JUndef,
             txAdminPort |-> JUndef, loginPageLogo |-> JUndef,
             defaultMasterAccount |-> JUndef, deployerDefaults |-> JUndef]
       ELSE [threw |-> FALSE, unlink |-> unlinkGate(devEnabled),
             forceInterface |-> Get(zapCfgData, "interface"),
             forceFXServerPort |-> Get(zapCfgData, "fxServerPort"),
             txAdminPort |-> Get(zapCfgData, "txAdminPort"),
             loginPageLogo |-> Get(zapCfgData, "loginPageLogo"),
             defaultMasterAccount |->
                 IF Truthy(customer)
                 THEN JObj([name |-> Get(customer, "name"),
                            password_hash |-> Get(customer, "password_hash")])
                 ELSE JFalse,
             deployerDefaults |->
                 JObj([license |-> Get(defaults, "license"),
                       maxClients |-> Get(defaults, "maxClients"),
                       mysqlHost |-> Get(defaults, "mysqlHost"),
                       mysqlPort |-> Get(defaults, "mysqlPort"),
                       mysqlUser |-> Get(defaults, "mysqlUser"),
                       mysqlPassword |-> Get(defaults, "mysqlPassword"),
                       mysqlDatabase |-> Get(defaults, "mysqlDatabase")])]

(***************************************************************************)
(* What the bootstrap reads: the host, the convars, the process            *)
(* environment and the data directory.                                     *)
(***************************************************************************)
OsTypeVars == {"Windows_NT", "Linux", "Darwin"}

Builds == (minFXServerVersion - VersionSpread)..(minFXServerVersion + VersionSpread)

\* what the version convar holds: a host version string, or (unset, or a
\* custom build) something the parser does not recognise
VersionConvars ==
    {[kind |-> "custom", branch |-> "", build |-> 0]}
    \cup {[kind |-> "fxserver", branch |-> "master", build |-> n] : n \in Builds}
    \cup {[kind |-> "fxserver", branch |-> "feature", build |-> minFXServerVersion]}

\* GetResourceMetadata(resourceName, 'version', 0) and GetResourcePath(resourceName)
TxAdminVersions == {JStr("7.3.2"), JStr("null"), JUndef}
ResourcePaths == {JStr("/fx/alpine/opt/cfx/citizen/system_resources/monitor"),
                  JStr("null"), JUndef}

\* GetConvar('citizen_root', 'false')
CitizenRootConvars ==
    { Ascii("false"),
      Ascii(" /fx/alpine/opt/cfx/./citizen/ "),
      Ascii("C:\\fx\\citizen"),
      Ascii("C:\\Temp\\Rar$EX0\\citizen"),
      Ascii("C:/temp//rar$") \o <<231>> \o Ascii("/citizen"),
      Ascii("/fx/") \o <<128>> \o Ascii("/citizen"),
      Ascii("/fx/") \o <<231>> \o Ascii("/citizen") }

\* GetConvar('txDataPath', 'false')
TxDataPathConvars ==
    { Ascii("false"),
      Ascii("/data/txData"),
      Ascii("/data/") \o <<128>>,
      Ascii("D:\\tx") \o <<35686, 21578>> }

ProfileAlphabet == {46, 97, 32}

\* GetConvar('serverProfile', 'default')
ServerProfileConvars ==
    UNION {[1..k -> ProfileAlphabet] : k \in 0..MaxProfileLen}
    \cup {Ascii("default"), Ascii("my.base"), Ascii("My Server!"), Ascii(".base")}

\* @shared/txDevEnv parseTxDevEnv(): the developer override read from the
\* process environment
TxDevEnvSrcs ==
    { [ENABLED |-> FALSE, SRC_PATH |-> Ascii("/src"), VITE_URL |-> <<>>, VERBOSE |-> FALSE],
      [ENABLED |-> TRUE, SRC_PATH |-> Ascii("/src"), VITE_URL |-> Ascii("http://x"), VERBOSE |-> TRUE],
      [ENABLED |-> TRUE, SRC_PATH |-> <<>>, VITE_URL |-> Ascii("http://x"), VERBOSE |-> FALSE],
      [ENABLED |-> TRUE, SRC_PATH |-> Ascii("/src"), VITE_URL |-> <<>>, VERBOSE |-> FALSE] }

\* process.env.TXADMIN_ENABLE
TxAdminEnables == {"1", ""}

\* GetConvar('txAdminPort', '40120') and GetConvar('txAdminInterface', 'false')
TxAdminPortConvars == {Ascii("40120"), Ascii(" 08080 "), Ascii("4o120")}
TxAdminInterfaceConvars == {Ascii("false"), Ascii("192.168.0.10"), Ascii("localhost")}

\* descriptors: the JSON documents txAdminZapConfig.json may hold
GoodDefaults == JObj([license |-> JStr("cfxk_1"), maxClients |-> JNum("48")])
GoodCustomer == JObj([name |-> JStr("bob"), password_hash |-> JStr("$2y$12$abc")])

ZapDescriptors ==
    { JNull,
      JObj([interface |-> JStr("10.0.0.1"), fxServerPort |-> JNum("30120"),
            txAdminPort |-> JNum("40120"), loginPageLogo |-> JStr("logo.png"),
            defaults |-> GoodDefaults, customer |-> GoodCustomer]),
      JObj([txAdminPort |-> JNum("40120"), defaults |-> GoodDefaults]),
      JObj([defaults |-> GoodDefaults]),
      JObj([txAdminPort |-> JStr("abc"), defaults |-> GoodDefaults]),
      JObj([txAdminPort |-> JNum("40120"), fxServerPort |-> JNum("30120.5"),
            defaults |-> GoodDefaults]),
      JObj([txAdminPort |-> JNum("40120"), interface |-> JStr("localhost"),
            defaults |-> GoodDefaults]),
      JObj([txAdminPort |-> JNum("40120")]),
      JObj([txAdminPort |-> JNum("40120"), defaults |-> GoodDefaults,
            customer |-> JObj([name |-> JStr("bo"),
                               password_hash |-> JStr("$2y$12$abc")])]),
      JObj([txAdminPort |-> JNum("40120"), defaults |-> GoodDefaults,
            customer |-> JObj([name |-> JStr("bob"),
                               password_hash |-> JStr("$2a$12$abc")])]),
      JObj([txAdminPort |-> JNum("40120"), defaults |-> GoodDefaults,
            customer |-> JObj([name |-> JNum("123"),
                               password_hash |-> JStr("$2y$12$abc")])]),
      JObj([txAdminPort |-> JNum("40120"), defaults |-> GoodDefaults,
            customer |-> JObj([name |-> JStr("bob")])]) }

\* the descriptor file on disk: absent, not parseable, or one of the documents
NoFile == [exists |-> FALSE, validJson |-> FALSE, data |-> JUndef]

ZapCfgFiles ==
    {NoFile, [exists |-> TRUE, validJson |-> FALSE, data |-> JUndef]}
    \cup {[exists |-> TRUE, validJson |-> TRUE, data |-> d] : d \in ZapDescriptors}

(***************************************************************************)
(* State.                                                                  *)
(***************************************************************************)
VARIABLES
    pc,            \* the statement the bootstrap is about to run
    exitCode,      \* the code given to process.exit, 0 while it has not run
    zapCfgFile,    \* txAdminZapConfig.json under the data root, on disk
    inp,           \* raw values the bootstrap has read so far
    m,             \* the module-level bindings of the bootstrap
    localIps,      \* addresses registered with addLocalIpAddress
    consoleEnv,    \* what setConsoleEnvData was given
    exports,       \* the frozen objects published so far, in order
    tpc,           \* the Translator: not constructed, ready, or process dead
    language,      \* txConfig.general.language at the last setupTranslator
    canonical,     \* Translator.canonical
    polyglot,      \* Translator.#polyglot: null or the phrases it holds
    before,        \* canonical and polyglot as the last refreshConfig found them
    last,          \* the last call made on the Translator and its outcome
    calls          \* number of refreshConfig and t calls made

bootVars == <<pc, exitCode, zapCfgFile, inp, m, localIps, consoleEnv, exports>>
trVars == <<tpc, language, canonical, polyglot, before, last, calls>>
vars == <<bootVars, trVars>>

NoDevEnv == [ENABLED |-> FALSE, SRC_PATH |-> <<>>, VITE_URL |-> <<>>, VERBOSE |-> FALSE]

InitBindings ==
    [osType |-> "", isWindows |-> FALSE,
     fxsVerParsed |-> [valid |-> FALSE, branch |-> "", build |-> 0],
     fxServerVersion |-> 0, txAdminVersion |-> JUndef,
     txAdminResourcePath |-> <<>>, fxServerPath |-> <<>>, dataPath |-> <<>>,
     profile |-> <<>>, profilePath |-> <<>>, txDevEnv |-> NoDevEnv,
     isPterodactyl |-> FALSE, isZapHosting |-> FALSE,
     forceInterface |-> JUndef, forceFXServerPort |-> JUndef,
     txAdminPort |-> JUndef, loginPageLogo |-> JUndef,
     defaultMasterAccount |-> JUndef, deployerDefaults |-> JUndef]

\* zapCfgAtStart remembers the descriptor file the run started with
InitInputs(file) ==
    [osTypeVar |-> "", txAdminResourcePathConvar |-> JUndef,
     citizenRootConvar |-> <<>>, serverProfile |-> <<>>,
     txDevEnvSrc |-> NoDevEnv, txadminEnable |-> "",
     txAdminPortConvar |-> <<>>, txAdminInterfaceConvar |-> <<>>,
     zapCfgAtStart |-> file]

BootInit ==
    /\ pc = "osType"
    /\ exitCode = 0
    /\ zapCfgFile \in ZapCfgFiles
    /\ inp = InitInputs(zapCfgFile)
    /\ m = InitBindings
    /\ localIps = {}
    /\ consoleEnv = <<>>
    /\ exports = <<>>

\* process.exit(code): nothing after it runs
Exit(code) ==
    /\ pc' = "exited"
    /\ exitCode' = code

Goto(next) ==
    /\ pc' = next
    /\ UNCHANGED exitCode

(***************************************************************************)
(* The bootstrap, one action per statement group of the module body.       *)
(***************************************************************************)
GetOSType ==
    /\ pc = "osType"
    /\ \E osTypeVar \in OsTypeVars :
          /\ inp' = [inp EXCEPT !.osTypeVar = osTypeVar]
          /\ IF osTypeVar = "Windows_NT"
             THEN m' = [m EXCEPT !.osType = "windows", !.isWindows = TRUE]
                  /\ Goto("fxServerVersion")
             ELSE IF osTypeVar = "Linux"
             THEN m' = [m EXCEPT !.osType = "linux", !.isWindows = FALSE]
                  /\ Goto("fxServerVersion")
             ELSE UNCHANGED m /\ Exit(100)
    /\ UNCHANGED <<zapCfgFile, localIps, consoleEnv, exports, trVars>>

GetFxServerVersion ==
    /\ pc = "fxServerVersion"
    /\ \E ver \in VersionConvars :
          LET fxsVerParsed == parseFxserverVersion(ver)
          IN /\ m' = [m EXCEPT !.fxsVerParsed = fxsVerParsed,
                               !.fxServerVersion = fxServerVersionOf(fxsVerParsed)]
             /\ IF versionTooOld(fxsVerParsed)
                THEN Exit(102)
                ELSE Goto("txAdminVersion")
    /\ UNCHANGED <<zapCfgFile, inp, localIps, consoleEnv, exports, trVars>>

GetTxAdminVersion ==
    /\ pc = "txAdminVersion"
    /\ \E txAdminVersion \in TxAdminVersions :
          /\ m' = [m EXCEPT !.txAdminVersion = txAdminVersion]
          /\ IF notAStringOrNull(txAdminVersion)
             THEN Exit(103)
             ELSE Goto("txAdminResourcePath")
    /\ UNCHANGED <<zapCfgFile, inp, localIps, consoleEnv, exports, trVars>>

GetTxAdminResourcePath ==
    /\ pc = "txAdminResourcePath"
    /\ \E txAdminResourcePathConvar \in ResourcePaths :
          /\ inp' = [inp EXCEPT !.txAdminResourcePathConvar = txAdminResourcePathConvar]
          /\ IF notAStringOrNull(txAdminResourcePathConvar)
             THEN UNCHANGED m /\ Exit(104)
             ELSE /\ m' = [m EXCEPT !.txAdminResourcePath =
                               cleanPath(txAdminResourcePathConvar.v, m.isWindows)]
                  /\ Goto("citizenRoot")
    /\ UNCHANGED <<zapCfgFile, localIps, consoleEnv, exports, trVars>>

GetCitizenRoot ==
    /\ pc = "citizenRoot"
    /\ \E cvar \in CitizenRootConvars :
          LET citizenRootConvar == getConvarString(cvar)
          IN /\ inp' = [inp EXCEPT !.citizenRootConvar = cvar]
             /\ IF Falsy(citizenRootConvar)
                THEN UNCHANGED m /\ Exit(105)
                ELSE /\ m' = [m EXCEPT !.fxServerPath =
                                  cleanPath(citizenRootConvar.str, m.isWindows)]
                     /\ Goto("winRarGuard")
    /\ UNCHANGED <<zapCfgFile, localIps, consoleEnv, exports, trVars>>

\* a guard that reports and goes on
CheckWinRarTempGoesOn ==
    /\ pc = "winRarGuard"
    /\ Goto("dataPath")
    /\ UNCHANGED <<zapCfgFile, inp, m, localIps, consoleEnv, exports, trVars>>

CheckWinRarTemp ==
    /\ pc = "winRarGuard"
    /\ IF insideWinRarTemp(m.isWindows, m.fxServerPath)
       THEN Exit(112)
       ELSE Goto("dataPath")
    /\ UNCHANGED <<zapCfgFile, inp, m, localIps, consoleEnv, exports, trVars>>

SetDataPath ==
    /\ pc = "dataPath"
    /\ \E cvar \in TxDataPathConvars :
          m' = [m EXCEPT !.dataPath =
                   dataPathOf(getConvarString(cvar), m.fxServerPath, m.isWindows)]
    /\ Goto("nonASCII")
    /\ UNCHANGED <<zapCfgFile, inp, localIps, consoleEnv, exports, trVars>>

\* a check that reports and goes on
CheckNonASCIIGoesOn ==
    /\ pc = "nonASCII"
    /\ Goto("profile")
    /\ UNCHANGED <<zapCfgFile, inp, m, localIps, consoleEnv, exports, trVars>>

CheckNonASCII ==
    /\ pc = "nonASCII"
    /\ IF nonASCIIRegex(m.fxServerPath) \/ nonASCIIRegex(m.dataPath)
       THEN Exit(107)
       ELSE Goto("profile")
    /\ UNCHANGED <<zapCfgFile, inp, m, localIps, consoleEnv, exports, trVars>>

SetProfile ==
    /\ pc = "profile"
    /\ \E serverProfile \in ServerProfileConvars :
          LET profile == profileOf(serverProfile)
          IN /\ inp' = [inp EXCEPT !.serverProfile = serverProfile]
             /\ IF EndsWith(profile, StrDotBase)
                THEN m' = [m EXCEPT !.profile = profile] /\ Exit(113)
                ELSE IF Len(profile) = 0
                THEN m' = [m EXCEPT !.profile = profile] /\ Exit(114)
                ELSE /\ m' = [m EXCEPT !.profile = profile,
                                  !.profilePath =
                                      profilePathOf(m.dataPath, profile, m.isWindows)]
                     /\ Goto("txDevEnv")
    /\ UNCHANGED <<zapCfgFile, localIps, consoleEnv, exports, trVars>>

SetTxDevEnv ==
    /\ pc = "txDevEnv"
    /\ \E txDevEnvSrc \in TxDevEnvSrcs :
          /\ inp' = [inp EXCEPT !.txDevEnvSrc = txDevEnvSrc]
          /\ IF devEnvIncomplete(txDevEnvSrc)
             THEN UNCHANGED m /\ Exit(108)
             ELSE /\ m' = [m EXCEPT !.txDevEnv = txDevEnvOf(txDevEnvSrc)]
                  /\ Goto("hostType")
    /\ UNCHANGED <<zapCfgFile, localIps, consoleEnv, exports, trVars>>

\* the bindings of the branch taken when the descriptor file does not exist
convarHostType(portConvar, interfaceConvar) ==
    LET txAdminPortConvar == Trim(portConvar)
        txAdminInterfaceConvar == getConvarString(interfaceConvar)
    IN [portInvalid |-> ~(txAdminPortConvar # <<>> /\ AllDigits(txAdminPortConvar)),
        interfaceInvalid |-> /\ ~Falsy(txAdminInterfaceConvar)
                             /\ ~IsDottedQuad(txAdminInterfaceConvar.str),
        txAdminPort |-> parseInt(txAdminPortConvar),
        forceInterface |-> IF Falsy(txAdminInterfaceConvar) THEN JFalse
                           ELSE [t |-> "string", v |-> txAdminInterfaceConvar.str]]

CheckHostType ==
    /\ pc = "hostType"
    /\ \E txadminEnable \in TxAdminEnables :
          LET isPterodactyl == isPterodactylOf(m.isWindows, txadminEnable)
          IN /\ IF zapCfgFile.exists
                THEN LET r == loadZapCfg(zapCfgFile, m.txDevEnv.ENABLED)
                         found == [m EXCEPT !.isPterodactyl = isPterodactyl,
                                            !.isZapHosting = isZapHostingOf(isPterodactyl)]
                     IN /\ inp' = [inp EXCEPT !.txadminEnable = txadminEnable]
                        /\ IF r.threw
                           THEN /\ m' = found
                                /\ UNCHANGED zapCfgFile
                                /\ Exit(109)
                           ELSE /\ m' = [found EXCEPT
                                           !.forceInterface = r.forceInterface,
                                           !.forceFXServerPort = r.forceFXServerPort,
                                           !.txAdminPort = r.txAdminPort,
                                           !.loginPageLogo = r.loginPageLogo,
                                           !.defaultMasterAccount = r.defaultMasterAccount,
                                           !.deployerDefaults = r.deployerDefaults]
                                /\ zapCfgFile' = IF r.unlink THEN NoFile ELSE zapCfgFile
                                /\ Goto("exports")
                ELSE \E portConvar \in TxAdminPortConvars,
                        interfaceConvar \in TxAdminInterfaceConvars :
                        LET r == convarHostType(portConvar, interfaceConvar)
                            notFound == [m EXCEPT !.isPterodactyl = isPterodactyl,
                                                  !.isZapHosting = FALSE,
                                                  !.forceFXServerPort = JFalse,
                                                  !.loginPageLogo = JFalse,
                                                  !.defaultMasterAccount = JFalse,
                                                  !.deployerDefaults = JFalse]
                            read == [inp EXCEPT !.txadminEnable = txadminEnable,
                                                !.txAdminPortConvar = portConvar]
                        IN /\ UNCHANGED zapCfgFile
                           /\ IF r.portInvalid
                              THEN /\ inp' = read
                                   /\ m' = notFound
                                   /\ Exit(110)
                              ELSE /\ inp' = [read EXCEPT
                                                !.txAdminInterfaceConvar = interfaceConvar]
                                   /\ IF r.interfaceInvalid
                                      THEN /\ m' = [notFound EXCEPT
                                                      !.txAdminPort = r.txAdminPort]
                                           /\ Exit(111)
                                      ELSE /\ m' = [notFound EXCEPT
                                                      !.txAdminPort = r.txAdminPort,
                                                      !.forceInterface = r.forceInterface]
                                           /\ Goto("exports")
    /\ UNCHANGED <<localIps, consoleEnv, exports, trVars>>

\* the three frozen objects the module exports, from its bindings
frozenExports(b) ==
    [txDevEnv |-> b.txDevEnv,
     txEnv |-> [osType |-> b.osType, isWindows |-> b.isWindows,
                fxServerVersion |-> b.fxServerVersion,
                txAdminVersion |-> b.txAdminVersion,
                txAdminResourcePath |-> b.txAdminResourcePath,
                fxServerPath |-> b.fxServerPath, dataPath |-> b.dataPath,
                profile |-> b.profile, profilePath |-> b.profilePath],
     convars |-> [isPterodactyl |-> b.isPterodactyl, isZapHosting |-> b.isZapHosting,
                  forceInterface |-> b.forceInterface,
                  forceFXServerPort |-> b.forceFXServerPort,
                  txAdminPort |-> b.txAdminPort, loginPageLogo |-> b.loginPageLogo,
                  defaultMasterAccount |-> b.defaultMasterAccount,
                  deployerDefaults |-> b.deployerDefaults]]

\* the tail of the module: the forced interface is registered, the console
\* gets its data, the exports are frozen
PublishExports ==
    /\ pc = "exports"
    /\ localIps' = IF Truthy(m.forceInterface)
                   THEN localIps \cup {m.forceInterface} ELSE localIps
    /\ consoleEnv' = <<[txAdminVersion |-> m.txAdminVersion,
                        txAdminResourcePath |-> m.txAdminResourcePath,
                        isDevMode |-> m.txDevEnv.ENABLED,
                        isVerbose |-> m.txDevEnv.VERBOSE]>>
    /\ exports' = Append(exports, frozenExports(m))
    /\ Goto("done")
    /\ UNCHANGED <<zapCfgFile, inp, m, trVars>>

BootNext ==
    \/ GetOSType
    \/ GetFxServerVersion
    \/ GetTxAdminVersion
    \/ GetTxAdminResourcePath
    \/ GetCitizenRoot
    \/ CheckWinRarTemp
    \/ SetDataPath
    \/ CheckNonASCII
    \/ SetProfile
    \/ SetTxDevEnv
    \/ CheckHostType
    \/ PublishExports

(***************************************************************************)
(* The Translator.                                                         *)
(***************************************************************************)
IsAlpha(c) == IsLower(c) \/ IsUpper(c)
ToUpper(c) == IF IsLower(c) THEN c - 32 ELSE c
UpperSeq(s) == [i \in 1..Len(s) |-> ToUpper(s[i])]
AllAlpha(s) == \A i \in 1..Len(s) : IsAlpha(s[i])

\* txConfig.general.language.replace(/_/g, '-')
underscoresToDashes(lang) == [i \in 1..Len(lang) |-> IF lang[i] = 95 THEN 45 ELSE lang[i]]

\* Intl.getCanonicalLocales(tag)[0] for tags of a language and an optional
\* region: the language in lower case, the region in upper case; a tag that
\* is not well formed makes it throw a RangeError
wellFormedTag(tag) ==
    LET parts == Split(tag, {45})
    IN /\ Len(parts) \in {1, 2}
       /\ AllAlpha(parts[1]) /\ Len(parts[1]) \in {2, 3, 5, 6, 7, 8}
       /\ Len(parts) = 2 =>
             \/ (AllAlpha(parts[2]) /\ Len(parts[2]) = 2)
             \/ (AllDigits(parts[2]) /\ Len(parts[2]) = 3)

getCanonicalLocale(tag) ==
    LET parts == Split(tag, {45})
    IN IF Len(parts) = 1 THEN LowerSeq(parts[1])
       ELSE LowerSeq(parts[1]) \o <<45>> \o UpperSeq(parts[2])

\* the first try block of setupTranslator
canonicalOf(lang) ==
    LET tag == underscoresToDashes(lang)
    IN IF wellFormedTag(tag) THEN getCanonicalLocale(tag) ELSE StrEnGB

\* @shared/localeMap: the built-in catalogs by language id; a catalog is a
\* set of <<key, phrase>> pairs
localeMap ==
    { [id |-> Ascii("en"), phrases |-> {<<"greeting", "Hello ">>, <<"bye", "Bye">>}],
      [id |-> Ascii("pt"), phrases |-> {<<"greeting", "Ola ">>}] }

\* txConfig.general.language
Languages ==
    {Ascii("en"), Ascii("pt"), Ascii("pt_BR"), Ascii("custom"), Ascii("tlh"),
     Ascii("no language")}

\* locale.json under the data root: unreadable, not JSON, or a catalog
CustomLocaleFiles ==
    { [readable |-> FALSE, validJson |-> FALSE, phrases |-> {}],
      [readable |-> TRUE, validJson |-> FALSE, phrases |-> {}],
      [readable |-> TRUE, validJson |-> TRUE, phrases |-> {<<"greeting", "Yo ">>}] }

Keys == {"greeting", "bye", "missing.key"}

\* the options given to t: nothing to interpolate, or a value
Options == {"", "Bob"}

\* getLanguagePhrases(lang): the phrases, or it throws
getLanguagePhrases(lang, localeFile) ==
    IF \E e \in localeMap : e.id = lang
    THEN [threw |-> FALSE, phrases |-> (CHOOSE e \in localeMap : e.id = lang).phrases]
    ELSE IF lang = StrCustom
    THEN IF localeFile.readable /\ localeFile.validJson
         THEN [threw |-> FALSE, phrases |-> localeFile.phrases]
         ELSE [threw |-> TRUE, phrases |-> {}]
    ELSE [threw |-> TRUE, phrases |-> {}]

NullPolyglot == [isNull |-> TRUE, phrases |-> {}]

\* @lib/fatalError: fatalError.Translator(...) ends the process, it does not
\* return to its caller
fatalErrorEndsProcess == TRUE

\* a setupTranslator that drops the engine when the phrases fail to load
setupTranslatorDropsEngine(cur, lang, localeFile, isFirstTime) ==
    LET loaded == getLanguagePhrases(lang, localeFile)
    IN [canonical |-> canonicalOf(lang),
        polyglot |-> IF loaded.threw THEN NullPolyglot
                     ELSE [isNull |-> FALSE, phrases |-> loaded.phrases],
        loadOk |-> ~loaded.threw,
        fatal |-> loaded.threw /\ isFirstTime /\ fatalErrorEndsProcess]

\* setupTranslator(isFirstTime) on a Translator whose fields are cur: the
\* fields afterwards, whether the phrases loaded, whether the process ended
setupTranslator(cur, lang, localeFile, isFirstTime) ==
    LET loaded == getLanguagePhrases(lang, localeFile)
    IN [canonical |-> canonicalOf(lang),
        polyglot |-> IF loaded.threw THEN cur.polyglot
                     ELSE [isNull |-> FALSE, phrases |-> loaded.phrases],
        loadOk |-> ~loaded.threw,
        fatal |-> loaded.threw /\ isFirstTime /\ fatalErrorEndsProcess]

HasKey(phrases, key) == \E e \in phrases : e[1] = key
PhraseOf(phrases, key) == (CHOOSE e \in phrases : e[1] = key)[2]

\* the onMissingKey callback given to Polyglot: one console.error, the key
onMissingKey(key) == [ret |-> key, errors |-> 1]

\* polyglot.t(key, options) as configured: the phrase with the options
\* interpolated, or the onMissingKey result for a key the phrases lack
polyglotT(phrases, key, options) ==
    IF HasKey(phrases, key)
    THEN [ret |-> PhraseOf(phrases, key) \o options, errors |-> 0]
    ELSE onMissingKey(key)

\* t(key, options); libThrows: polyglot.t throws while rendering a phrase
t(pg, key, options, libThrows) ==
    IF pg.isNull THEN [threw |-> TRUE, ret |-> "", errors |-> 0]
    ELSE IF libThrows /\ HasKey(pg.phrases, key)
    THEN [threw |-> FALSE, ret |-> key, errors |-> 1]
    ELSE LET r == polyglotT(pg.phrases, key, options)
         IN [threw |-> FALSE, ret |-> r.ret, errors |-> r.errors]

NoCall == [op |-> "none", loadOk |-> TRUE, key |-> "", known |-> FALSE,
           threw |-> FALSE, ret |-> "", errors |-> 0]

\* new Translator()
Construct ==
    /\ tpc = "new"
    /\ \E lang \in Languages, localeFile \in CustomLocaleFiles :
          LET r == setupTranslator([canonical |-> canonical, polyglot |-> polyglot],
                                   lang, localeFile, TRUE)
          IN /\ language' = lang
             /\ canonical' = r.canonical
             /\ polyglot' = r.polyglot
             /\ tpc' = IF r.fatal THEN "dead" ELSE "ready"
             /\ last' = [NoCall EXCEPT !.op = "new", !.loadOk = r.loadOk]
    /\ UNCHANGED <<before, calls, bootVars>>

\* refreshConfig(); resetConvars may throw, which is caught and logged
RefreshConfig ==
    /\ tpc = "ready"
    /\ calls < MaxCalls
    /\ \E lang \in Languages, localeFile \in CustomLocaleFiles, resetThrows \in BOOLEAN :
          LET r == setupTranslator([canonical |-> canonical, polyglot |-> polyglot],
                                   lang, localeFile, FALSE)
          IN /\ before' = [canonical |-> canonical, polyglot |-> polyglot]
             /\ language' = lang
             /\ canonical' = r.canonical
             /\ polyglot' = r.polyglot
             /\ tpc' = IF r.fatal THEN "dead" ELSE "ready"
             /\ last' = [NoCall EXCEPT !.op = "refreshConfig", !.loadOk = r.loadOk]
    /\ calls' = calls + 1
    /\ UNCHANGED bootVars

\* t(key, options)
Translate ==
    /\ tpc = "ready"
    /\ calls < MaxCalls
    /\ \E key \in Keys, options \in Options, libThrows \in BOOLEAN :
          LET r == t(polyglot, key, options, libThrows)
          IN last' = [op |-> "t", loadOk |-> TRUE, key |-> key,
                      known |-> HasKey(polyglot.phrases, key),
                      threw |-> r.threw, ret |-> r.ret, errors |-> r.errors]
    /\ calls' = calls + 1
    /\ UNCHANGED <<tpc, language, canonical, polyglot, before, bootVars>>

TrNext == Construct \/ RefreshConfig \/ Translate

(***************************************************************************)
(* Specifications.                                                         *)
(***************************************************************************)
\* the Translator's fields before its constructor runs
TrIdle ==
    /\ tpc = "new"
    /\ language = <<>>
    /\ canonical = StrEnGB
    /\ polyglot = NullPolyglot
    /\ before = [canonical |-> StrEnGB, polyglot |-> NullPolyglot]
    /\ last = NoCall
    /\ calls = 0

\* the bindings of one bootstrap that ran to its end: a Linux host at the
\* minimum build, default data path and profile, no descriptor, no override
DoneBindings ==
    LET fxsVerParsed == parseFxserverVersion(
            [kind |-> "fxserver", branch |-> "master", build |-> minFXServerVersion])
        fxServerPath == cleanPath(Ascii("/fx/alpine/opt/cfx/citizen/"), FALSE)
        dataPath == dataPathOf(getConvarString(Ascii("false")), fxServerPath, FALSE)
        profile == profileOf(Ascii("default"))
        host == convarHostType(Ascii("40120"), Ascii("false"))
    IN [InitBindings EXCEPT
           !.osType = "linux",
           !.fxsVerParsed = fxsVerParsed,
           !.fxServerVersion = fxServerVersionOf(fxsVerParsed),
           !.txAdminVersion = JStr("7.3.2"),
           !.txAdminResourcePath = cleanPath(Ascii("/fx/monitor"), FALSE),
           !.fxServerPath = fxServerPath,
           !.dataPath = dataPath,
           !.profile = profile,
           !.profilePath = profilePathOf(dataPath, profile, FALSE),
           !.forceInterface = host.forceInterface,
           !.forceFXServerPort = JFalse,
           !.txAdminPort = host.txAdminPort,
           !.loginPageLogo = JFalse,
           !.defaultMasterAccount = JFalse,
           !.deployerDefaults = JFalse]

BootDone ==
    /\ pc = "done"
    /\ exitCode = 0
    /\ zapCfgFile = NoFile
    /\ inp = [InitInputs(NoFile) EXCEPT !.osTypeVar = "Linux",
                                        !.serverProfile = Ascii("default")]
    /\ m = DoneBindings
    /\ localIps = {}
    /\ consoleEnv = <<[txAdminVersion |-> DoneBindings.txAdminVersion,
                       txAdminResourcePath |-> DoneBindings.txAdminResourcePath,
                       isDevMode |-> FALSE, isVerbose |-> FALSE]>>
    /\ exports = <<frozenExports(DoneBindings)>>

\* readonly customLocalePath = path.join(txEnv.dataPath, 'locale.json')
customLocalePath ==
    pathJoin(<<DoneBindings.dataPath, Ascii("locale.json")>>, DoneBindings.isWindows)

\* the bootstrap of the module, from any descriptor file on disk
Init == BootInit /\ TrIdle
Next == BootNext
Spec == Init /\ [][Next]_vars

\* the Translator of a process whose bootstrap has run to its end
InitTranslator == BootDone /\ TrIdle
NextTranslator == TrNext
SpecTranslator == InitTranslator /\ [][NextTranslator]_vars

(***************************************************************************)
(* Properties.                                                             *)
(***************************************************************************)
Published == exports # <<>>
DescriptorAtStart == inp.zapCfgAtStart.exists
DescriptorDeleted == inp.zapCfgAtStart.exists /\ ~zapCfgFile.exists
PterodactylMarker == ~m.isWindows /\ inp.txadminEnable = "1"

\* a code unit above 0x7F
HasNonAscii(s) == \E i \in 1..Len(s) : s[i] > 127

\* the fatal condition behind each exit code, on what the run has read
FatalCondition(code) ==
    CASE code = 100 -> inp.osTypeVar \notin {"Windows_NT", "Linux"}
      [] code = 102 -> versionTooOld(m.fxsVerParsed)
      [] code = 103 -> notAStringOrNull(m.txAdminVersion)
      [] code = 104 -> notAStringOrNull(inp.txAdminResourcePathConvar)
      [] code = 105 -> Falsy(getConvarString(inp.citizenRootConvar))
      [] code = 112 -> insideWinRarTemp(m.isWindows, m.fxServerPath)
      [] code = 107 -> nonASCIIRegex(m.fxServerPath) \/ nonASCIIRegex(m.dataPath)
      [] code = 113 -> EndsWith(m.profile, StrDotBase)
      [] code = 114 -> Len(m.profile) = 0
      [] code = 108 -> devEnvIncomplete(inp.txDevEnvSrc)
      [] code = 109 -> /\ DescriptorAtStart
                       /\ loadZapCfg(inp.zapCfgAtStart, inp.txDevEnvSrc.ENABLED).threw
      [] code = 110 -> /\ ~DescriptorAtStart
                       /\ convarHostType(inp.txAdminPortConvar,
                                         inp.txAdminInterfaceConvar).portInvalid
      [] code = 111 -> /\ ~DescriptorAtStart
                       /\ convarHostType(inp.txAdminPortConvar,
                                         inp.txAdminInterfaceConvar).interfaceInvalid

\* the exit codes in the order the module body reaches their checks
CodeOrder == <<100, 102, 103, 104, 105, 112, 107, 113, 114, 108, 109, 110, 111>>

PositionIn(order, code) == CHOOSE i \in 1..Len(order) : order[i] = code

(* C1, as stated: a run that ends with the descriptor file present at its   *)
(* start and the Pterodactyl marker set publishes isZapHosting = true and   *)
(* isPterodactyl = false.                                                   *)
C1_DescriptorTakesPriority ==
    (pc = "done" /\ DescriptorAtStart /\ PterodactylMarker)
        => /\ exports[1].convars.isZapHosting
           /\ ~exports[1].convars.isPterodactyl

(* C1, amended: with both present the marker takes priority: the run        *)
(* publishes isPterodactyl = true and isZapHosting = false, while convars   *)
(* still carry the descriptor's values; with the descriptor and no marker   *)
(* it publishes isZapHosting = true; the two flags are never both true.     *)
C1_MarkerTakesPriority ==
    pc = "done" =>
        LET c == exports[1].convars
        IN /\ (DescriptorAtStart /\ PterodactylMarker)
                 => /\ c.isPterodactyl /\ ~c.isZapHosting
                    /\ c.txAdminPort = Get(inp.zapCfgAtStart.data, "txAdminPort")
           /\ (DescriptorAtStart /\ ~PterodactylMarker)
                 => c.isZapHosting /\ ~c.isPterodactyl
           /\ ~(c.isZapHosting /\ c.isPterodactyl)

C1_Witness == pc = "done" /\ DescriptorAtStart /\ PterodactylMarker

(* C2, as stated: a refreshConfig whose catalog load fails leaves the       *)
(* canonical locale and the phrases as they were before the call.           *)
C2_FailedRefreshChangesNothing ==
    (last.op = "refreshConfig" /\ ~last.loadOk)
        => canonical = before.canonical /\ polyglot = before.polyglot

(* C3, as stated: a run that reaches the path check exits with 107 exactly  *)
(* when fxServerPath or dataPath holds a code unit above 0x7F.              *)
C3_NonASCIIGate ==
    LET reached == \/ pc \in {"profile", "txDevEnv", "hostType", "exports", "done"}
                   \/ pc = "exited" /\ exitCode \in {107, 113, 114, 108, 109, 110, 111}
    IN reached =>
          ((exitCode = 107) <=> (HasNonAscii(m.fxServerPath) \/ HasNonAscii(m.dataPath)))

(* C4: once the constructor has returned the engine is never null, so t     *)
(* never throws; it returns a string, and for a key the active phrases lack *)
(* it returns the key and logs exactly one error.                           *)
C4_TranslateNeverThrows ==
    /\ tpc = "ready" => ~polyglot.isNull
    /\ last.op = "t" =>
          /\ ~last.threw
          /\ last.ret \in STRING
          /\ ~last.known => (last.ret = last.key /\ last.errors = 1)

\* t was asked for a missing key after a refreshConfig that failed to load
C4_Witness ==
    /\ last.op = "t" /\ ~last.known /\ last.key = "missing.key"
    /\ language = Ascii("tlh")

ExitCodes == {CodeOrder[i] : i \in 1..Len(CodeOrder)}

(* C5: a run that exits has an exit code whose fatal condition holds and    *)
(* has published nothing; the exports are published at most once, only by   *)
(* a run in which no fatal condition holds and no exit code was given, and  *)
(* once published they never change.                                        *)
C5_State ==
    /\ Len(exports) <= 1
    /\ pc = "exited" <=> exitCode # 0
    /\ pc = "exited" =>
          /\ ~Published
          /\ exitCode \in ExitCodes
          /\ FatalCondition(exitCode)
    /\ Published =>
          /\ pc = "done"
          /\ exports[1] = frozenExports(m)
          /\ \A code \in ExitCodes : ~FatalCondition(code)
    /\ pc = "done" => Published

(* C5: every state satisfies C5_State (an exit publishes nothing, exports    *)
(* exist only for a run with no fatal condition), and published exports      *)
(* are frozen: no later step changes them.                                   *)
C5_NoPartialSnapshot ==
    /\ []C5_State
    /\ [][Published => exports' = exports]_vars

\* the last fatal check of the module fails: every other step has run
C5_Witness == pc = "exited" /\ exitCode = 111 /\ ~Published

(* C6: past the version gate, a parsed build below minFXServerVersion has   *)
(* exited with 102; a parsed build at or above it has not, and              *)
(* fxServerVersion (bound and published) is that build; an unparsed version *)
(* has not exited with 102 and fxServerVersion is 99999, above the minimum. *)
C6_VersionGate ==
    LET parsed == m.fxsVerParsed
        pastGate == /\ pc \notin {"osType", "fxServerVersion"}
                    /\ ~(pc = "exited" /\ exitCode = 100)
        versionIs(n) == /\ m.fxServerVersion = n
                        /\ Published => exports[1].txEnv.fxServerVersion = n
    IN pastGate =>
          /\ (parsed.valid /\ parsed.build < 5894) => (pc = "exited" /\ exitCode = 102)
          /\ (parsed.valid /\ parsed.build >= 5894)
                => (exitCode # 102 /\ versionIs(parsed.build))
          /\ ~parsed.valid => (exitCode # 102 /\ versionIs(99999) /\ 99999 > 5894)

C6_Witness ==
    pc = "exited" /\ exitCode = 102 /\ m.fxsVerParsed.build = 5893

(* C7: the descriptor file is never created or rewritten; it is deleted     *)
(* only when it existed, parsed and validated, and the developer override   *)
(* is not enabled, and then the run gives no exit code; a run that ends     *)
(* with the override disabled has deleted it, one that ends with the        *)
(* override enabled has left it, and so has a run that exits with 109.      *)
C7_DeletionGate ==
    /\ zapCfgFile.exists => zapCfgFile = inp.zapCfgAtStart
    /\ DescriptorDeleted =>
          /\ inp.zapCfgAtStart.validJson
          /\ ~inp.txDevEnvSrc.ENABLED
          /\ exitCode = 0
          /\ pc \in {"exports", "done"}
    /\ (pc = "done" /\ DescriptorAtStart /\ ~exports[1].txDevEnv.ENABLED)
          => DescriptorDeleted
    /\ (pc = "done" /\ DescriptorAtStart /\ exports[1].txDevEnv.ENABLED)
          => zapCfgFile.exists
    /\ exitCode = 109 => zapCfgFile.exists
    /\ exitCode # 0 => ~DescriptorDeleted

C7_Witness == pc = "done" /\ DescriptorDeleted

\* a JavaScript number that is an integer (its text is an optional sign and digits)
IsIntegerNumber(x) ==
    /\ x.t = "number"
    /\ x.v # <<>>
    /\ AllDigits(IF Head(x.v) = 45 THEN Tail(x.v) ELSE x.v)
    /\ x.v # <<45>>

\* the descriptor shapes the claim C8 lists as malformed
Present(x) == x.t # "undefined"

DescriptorMalformed(file) ==
    LET d == file.data
        customer == Get(d, "customer")
    IN \/ ~file.validJson
       \/ ~IsIntegerNumber(Get(d, "txAdminPort"))
       \/ Present(Get(d, "fxServerPort")) /\ ~IsIntegerNumber(Get(d, "fxServerPort"))
       \/ Present(Get(d, "interface"))
             /\ ~(Get(d, "interface").t = "string" /\ IsDottedQuad(Get(d, "interface").v))
       \/ ~Present(Get(d, "defaults"))
       \/ Present(customer)
             /\ ~(/\ Get(customer, "name").t = "string"
                  /\ Len(Get(customer, "name").v) >= 3
                  /\ Get(customer, "password_hash").t = "string"
                  /\ StartsWith(Get(customer, "password_hash").v, StrBcrypt))

(* C8, as stated: a run that finds the descriptor file and gets past it     *)
(* had a well-formed descriptor (a malformed one exits with 109), so the    *)
(* txAdminPort it binds is an integer and the interface, if any, a          *)
(* dotted-quad string.                                                      *)
C8_DescriptorValidated ==
    (pc \in {"exports", "done"} /\ DescriptorAtStart)
        => /\ ~DescriptorMalformed(inp.zapCfgAtStart)
           /\ IsIntegerNumber(m.txAdminPort)
           /\ Present(m.forceInterface)
                 => (m.forceInterface.t = "string" /\ IsDottedQuad(m.forceInterface.v))

\* the name as a direct child of the directory
ChildPath(dir, name) ==
    (IF dir # <<>> /\ dir[Len(dir)] = 47 THEN dir ELSE dir \o <<47>>) \o name

InAllowList(c) ==
    \/ c \in 97..122 \/ c \in 65..90 \/ c \in 48..57
    \/ c \in {46, 95, 45}

(* C9, as stated: the published profile is serverProfile without the        *)
(* characters outside [a-zA-Z0-9._-], is not empty, does not end in .base,  *)
(* and profilePath is dataPath, a separator, and the profile name.          *)
C9_ProfilePath ==
    Published =>
        LET e == exports[1].txEnv
        IN /\ e.profile = SelectSeq(inp.serverProfile, InAllowList)
           /\ e.profile # <<>>
           /\ ~EndsWith(e.profile, StrDotBase)
           /\ e.profilePath = ChildPath(e.dataPath, e.profile)

\* the descriptor at the start of the run does not get through the loader
DescriptorRejected ==
    /\ DescriptorAtStart
    /\ loadZapCfg(inp.zapCfgAtStart, inp.txDevEnvSrc.ENABLED).threw

(* C10, as stated: the steps run in the documented order, so a non-ASCII    *)
(* host path inside a WinRAR temp folder exits with 107 rather than 112,    *)
(* and a malformed descriptor together with an incomplete developer         *)
(* override exits with 109 rather than 108.                                 *)
C10_DocumentedOrder ==
    /\ (/\ pc = "exited" /\ exitCode \in {107, 112}
        /\ m.isWindows /\ matchesWinRarTemp(m.fxServerPath)
        /\ HasNonAscii(m.fxServerPath))
          => exitCode = 107
    /\ (/\ pc = "exited" /\ exitCode \in {108, 109}
        /\ DescriptorRejected /\ devEnvIncomplete(inp.txDevEnvSrc))
          => exitCode = 109

(* C10, amended: the steps run in the order of the module body: OS probe    *)
(* (100), host version (102), txAdmin version (103), resource path (104),   *)
(* citizen_root (105), WinRAR guard (112), data path and non-ASCII check    *)
(* (107), profile (113, 114), developer override (108), hosting mode (109,  *)
(* 110, 111); the exit code is that of the earliest failing step in this    *)
(* order, so the two examples exit with 112 and with 108.                   *)
C10_CodeOrder ==
    /\ pc = "exited" =>
          /\ FatalCondition(exitCode)
          /\ \A code \in ExitCodes :
                PositionIn(CodeOrder, code) < PositionIn(CodeOrder, exitCode)
                    => ~FatalCondition(code)
    /\ (/\ pc = "exited" /\ exitCode \in {107, 112}
        /\ m.isWindows /\ matchesWinRarTemp(m.fxServerPath)
        /\ HasNonAscii(m.fxServerPath))
          => exitCode = 112
    /\ (/\ pc = "exited" /\ exitCode \in {108, 109}
        /\ DescriptorRejected /\ devEnvIncomplete(inp.txDevEnvSrc))
          => exitCode = 108

\* a non-ASCII host path inside a WinRAR temp folder has stopped the run
C10_Witness ==
    /\ pc = "exited" /\ exitCode = 112
    /\ HasNonAscii(m.fxServerPath)

====
